---- MODULE Spec2Model ----
(***************************************************************************)
(* pymmapipc: two endpoints exchange length-prefixed messages through two  *)
(* ring buffers kept in one memory-mapped file.  The file is modelled as   *)
(* the array of its bytes; every header field is read and written through  *)
(* its little-endian encoding at its absolute file offset, as the code     *)
(* does with struct.pack / struct.unpack and mmap.seek / read / write.     *)
(***************************************************************************)
EXTENDS Integers, Sequences, FiniteSets, TLC

VARIABLES
    mmap,     \* the mapped file: [0 .. FileSize-1 -> byte]
    ep,       \* per process: the MmapIPC object it holds (or none)
    last,     \* the last call made: operation, caller, payload length and outcome
    sent,     \* per ring: payloads whose send returned success since the ring was last reset
    rcvd,     \* per ring: payloads returned by recv since the ring was last reset
    count,    \* sends that wrote a frame, recvs that read one, whether one of them
              \* was made while fewer than two endpoints were attached, and the
              \* blocking calls made
    pc,       \* per process: position inside a call executed step by step
    loc       \* per process: the local variables of that call

vars == <<mmap, ep, last, sent, rcvd, count, pc, loc>>

----------------------------------------------------------------------------
(* Bounds of the model *)

\* buff_size handed to the constructor (the code's default is 4096)
PayloadSize == 5
\* number of processes; each constructs one endpoint on the file in its life
NumProcs == 3
\* sends that write a frame, and recvs that read one, over a run
MaxSends == 2
\* largest timeout handed to a blocking call, in units of 0.05 s
MaxTimeout == 3
\* blocking calls made over a run
MaxCalls == 2
\* empty messages sent and received on a ring before a run starts
MaxRounds == 2

----------------------------------------------------------------------------
(* Program constants *)

MAGIC_NUMBER == 1346456909
VERSION == 1
OPA == 1073741824
OPB == 536870912
HeaderSize == 20
BufferSize == 12
\* the polling quantum sleep_time = 0.1 s, in units of 0.05 s
SleepQuantum == 2

\* longest payload handed to send
MaxLen == PayloadSize

Procs == 1 .. NumProcs
PayloadBytes == {65, 66}
\* the payloads handed to send: b"", b"A" * n, b"B" * n
Messages == { [i \in 1 .. n |-> b] : n \in 0 .. MaxLen, b \in PayloadBytes }

FileSize == HeaderSize + BufferSize * 2 + (PayloadSize + 1) * 2

Min(a, b) == IF a < b THEN a ELSE b

----------------------------------------------------------------------------
(* Layout codec: struct.pack / struct.unpack of little-endian u32 *)

Pack32(n) ==
    << n % 256, (n \div 256) % 256, (n \div 65536) % 256, (n \div 16777216) % 256 >>

Unpack32(b) ==
    b[1] + 256 * b[2] + 65536 * b[3] + 16777216 * b[4]

\* sign & bit, for a single-bit mask
HasBit(sign, bit) == (sign \div bit) % 2 = 1
\* sign | bit
SetBit(sign, bit) == IF HasBit(sign, bit) THEN sign ELSE sign + bit
\* sign & ~bit ; assign_op = 0 clears nothing
ClearBit(sign, bit) == IF bit # 0 /\ HasBit(sign, bit) THEN sign - bit ELSE sign

\* len(hex(n)[2:]): the number of hexadecimal digits of n, without leading zeros
RECURSIVE HexLen(_)
HexLen(n) == IF n < 16 THEN 1 ELSE 1 + HexLen(n \div 16)

\* __init__, lines 94-97: how the constructor ends on a Magic that is neither
\* MAGIC_NUMBER nor 0.  The message of the BufferError is built with
\* bytes.fromhex(hex(magic)[2:]), which raises ValueError on an odd number of
\* digits before the BufferError is constructed.
MagicError(magic) == IF HexLen(magic) % 2 = 0 THEN "bad_magic" ELSE "value_error"

\* mmap.seek(pos); mmap.read(n): at most the bytes left before the end of the file
MmapRead(m, pos, n) ==
    [i \in 1 .. (IF n < 0 THEN FileSize - pos ELSE Min(n, FileSize - pos)) |-> m[pos + i - 1]]

\* mmap.seek(pos); mmap.write(bytes)
MmapWrite(m, pos, bytes) ==
    [i \in DOMAIN m |-> IF i >= pos /\ i < pos + Len(bytes) THEN bytes[i - pos + 1] ELSE m[i]]

\* struct.pack of a tuple of u32
PackAll(fields) ==
    [i \in 1 .. 4 * Len(fields) |-> Pack32(fields[((i - 1) \div 4) + 1])[((i - 1) % 4) + 1]]

\* header tuple <<Magic, Version, BasePtrA, BasePtrB, Sign>>
ReadMmapHeader(m) ==
    [k \in 1 .. 5 |-> Unpack32(MmapRead(m, 4 * (k - 1), 4))]

WriteMmapHeader(m, header) == MmapWrite(m, 0, PackAll(header))

\* ring header tuple <<InOffset, OutOffset, Size>>
ReadBuffHeader(m, buff_ptr) ==
    [k \in 1 .. 3 |-> Unpack32(MmapRead(m, buff_ptr + 4 * (k - 1), 4))]

WriteBuffHeader(m, buff_base_ptr, header) == MmapWrite(m, buff_base_ptr, PackAll(header))

\* a variant of UpdateBuffOffset that writes one field further
UpdateBuffOffsetShifted(m, offset_ptr, offset) == MmapWrite(m, offset_ptr + 4, Pack32(offset))

UpdateBuffOffset(m, offset_ptr, offset) == MmapWrite(m, offset_ptr, Pack32(offset))

\* field accessors of the file
Magic(m) == ReadMmapHeader(m)[1]
Version(m) == ReadMmapHeader(m)[2]
BasePtrA(m) == ReadMmapHeader(m)[3]
BasePtrB(m) == ReadMmapHeader(m)[4]
Sign(m) == ReadMmapHeader(m)[5]
InOffset(m, base) == ReadBuffHeader(m, base)[1]
OutOffset(m, base) == ReadBuffHeader(m, base)[2]
Size(m, base) == ReadBuffHeader(m, base)[3]
\* the Size bytes of a ring that follow its header
RingData(m, base) == [i \in 0 .. PayloadSize |-> m[base + BufferSize + i]]

----------------------------------------------------------------------------
(* File bootstrap *)

\* __init_mmap_file: the zero-filled file
InitMmapFile == [i \in 0 .. FileSize - 1 |-> 0]

\* __init_mmap_struct
InitMmapStruct(m, buff_size) ==
    LET buff_base_ptr_A == HeaderSize
        buff_base_ptr_B == buff_base_ptr_A + BufferSize + buff_size + 1
        m1 == WriteMmapHeader(m, <<MAGIC_NUMBER, VERSION, buff_base_ptr_A, buff_base_ptr_B, 0>>)
        m2 == WriteBuffHeader(m1, buff_base_ptr_A, <<0, 0, buff_size + 1>>)
    IN  WriteBuffHeader(m2, buff_base_ptr_B, <<0, 0, buff_size + 1>>)

RingA == HeaderSize
RingB == HeaderSize + BufferSize + PayloadSize + 1
Rings == {RingA, RingB}

----------------------------------------------------------------------------
(* Role assignment *)

\* a variant of ClaimRole that returns the two base pointers in the other order
ClaimRoleSwapped(header) ==
    LET sign == header[5]
    IN  IF ~HasBit(sign, OPA)
        THEN [ok |-> TRUE, header |-> [header EXCEPT ![5] = SetBit(sign, OPA)],
              ret |-> <<OPA, header[4], header[3]>>]
        ELSE IF ~HasBit(sign, OPB)
        THEN [ok |-> TRUE, header |-> [header EXCEPT ![5] = SetBit(sign, OPB)],
              ret |-> <<OPB, header[3], header[4]>>]
        ELSE [ok |-> FALSE, header |-> header, ret |-> <<0, 0, 0>>]

\* __get_buff_base_ptr, lines 148-170, from the header it has read: the header
\* it writes back and the tuple it returns, which __init__ unpacks into
\* (assign_op, recv_buff_base_ptr, send_buff_base_ptr);
\* ok = FALSE stands for BufferError("This mmap file in use.")
ClaimRole(header) ==
    LET sign == header[5]
    IN  IF ~HasBit(sign, OPA)
        THEN [ok |-> TRUE, header |-> [header EXCEPT ![5] = SetBit(sign, OPA)],
              ret |-> <<OPA, header[3], header[4]>>]
        ELSE IF ~HasBit(sign, OPB)
        THEN [ok |-> TRUE, header |-> [header EXCEPT ![5] = SetBit(sign, OPB)],
              ret |-> <<OPB, header[4], header[3]>>]
        ELSE [ok |-> FALSE, header |-> header, ret |-> <<0, 0, 0>>]

\* __get_buff_base_ptr as one step: read the header, claim, write it back
GetBuffBasePtr(m) ==
    LET got == ClaimRole(ReadMmapHeader(m))
    IN  [ok |-> got.ok,
         m |-> IF got.ok THEN MmapWrite(m, 0, PackAll(got.header)) ELSE m,
         ret |-> got.ret]

\* the endpoint object
NoEndpoint ==
    [alive |-> FALSE, gone |-> FALSE, is_initialized |-> FALSE, assign_op |-> 0,
     recv_buff_base_ptr |-> 0, send_buff_base_ptr |-> 0]

\* the endpoint after __del__
GoneEndpoint == [NoEndpoint EXCEPT !.gone = TRUE]

\* the object left behind by a constructor that raised
FailedEndpoint == [NoEndpoint EXCEPT !.alive = TRUE]

\* lines 99-105 of __init__: the tuple is unpacked in the order
\* assign_op, recv_buff_base_ptr, send_buff_base_ptr
AttachedEndpoint(ret) ==
    [alive |-> TRUE, gone |-> FALSE, is_initialized |-> TRUE, assign_op |-> ret[1],
     recv_buff_base_ptr |-> ret[2], send_buff_base_ptr |-> ret[3]]

Attached(p) == ep[p].alive /\ ep[p].is_initialized

\* fewer than two endpoints are attached
Solo == Cardinality({ p \in Procs : Attached(p) }) < 2

----------------------------------------------------------------------------
(* Ring buffer and message framer *)

\* a variant of CalcBuffAvailableSize that compares the cursors strictly
CalcBuffAvailableSizeStrict(in_offset, out_offset, buff_size) ==
    IF in_offset > out_offset
    THEN <<buff_size - in_offset, out_offset>>
    ELSE <<out_offset - in_offset, 0>>

\* __calc_buff_available_size: <<front_available, back_available>>
CalcBuffAvailableSize(in_offset, out_offset, buff_size) ==
    IF in_offset >= out_offset
    THEN <<buff_size - in_offset, out_offset>>
    ELSE <<out_offset - in_offset, 0>>

\* send, lines 213-214 and 233-234: total_available from a ring header h
TotalOf(h) ==
    CalcBuffAvailableSize(h[1], h[2], h[3])[1] + CalcBuffAvailableSize(h[1], h[2], h[3])[2]

\* send, lines 211-214: total_available as send observes it
TotalAvailable(m, base) == TotalOf(ReadBuffHeader(m, base))

\* send, line 241: the length that decides whether the wrapped segment is written
SendLenB(data_size, len_f) == data_size - len_f

\* send, lines 236-239: the frame, and the file after the first segment is written
Framed(data) == Pack32(Len(data)) \o data

SendLenF(h, data) == Min(Len(data) + 4, CalcBuffAvailableSize(h[1], h[2], h[3])[1])

SendFrontAt(m, base, h, data) ==
    MmapWrite(m, base + BufferSize + h[1], SubSeq(Framed(data), 1, SendLenF(h, data)))

\* send, lines 241-244: the file after the wrapped segment is written, or skipped
SendBackAt(m, base, h, data) ==
    IF SendLenB(Len(data), SendLenF(h, data)) > 0
    THEN MmapWrite(m, base + BufferSize,
                   SubSeq(Framed(data), SendLenF(h, data) + 1, Len(Framed(data))))
    ELSE m

\* send, lines 246-248: the publication of in_offset
SendPublishAt(m, base, h, data) ==
    UpdateBuffOffset(m, base + 0 * 4, (h[1] + Len(data) + 4) % h[3])

\* send, lines 236-248, from the ring header h it read last: the two-segment
\* copy and the publication of in_offset
SendWriteAt(m, base, h, data) ==
    SendPublishAt(SendBackAt(SendFrontAt(m, base, h, data), base, h, data), base, h, data)

\* send, lines 211 and 236-248, without a step of another process in between
SendWrite(m, base, data) == SendWriteAt(m, base, ReadBuffHeader(m, base), data)

\* a variant of RecvEmpty that takes a wrapped producer cursor for an empty ring
RecvEmptyUnwrapped(in_offset, out_offset) == in_offset <= out_offset

\* recv, lines 255 and 259: the ring is seen as empty
RecvEmpty(in_offset, out_offset) == in_offset = out_offset

\* recv, lines 270-282, from the ring header h it read last: the length prefix
\* and the file position after reading it
RecvSizeAt(m, base, h) ==
    LET out_offset == h[2]
        buff_size == h[3]
        start == base + BufferSize + out_offset
        tail_read_len == buff_size - out_offset
        head == MmapRead(m, base + BufferSize, 4 - tail_read_len)
    IN  IF tail_read_len < 4
        THEN [raw |-> MmapRead(m, start, tail_read_len) \o head,
              pos |-> base + BufferSize + Len(head)]
        ELSE [raw |-> MmapRead(m, start, 4),
              pos |-> start + Len(MmapRead(m, start, 4))]

\* recv, lines 284-287
RecvLenF(data_size, buff_size, out_offset) ==
    LET len_f == Min(data_size, buff_size - (out_offset + 4))
    IN  IF len_f <= 0 THEN data_size ELSE len_f

\* recv, lines 284-295: the payload, read from file position pos
RecvPayloadAt(m, base, h, data_size, pos) ==
    LET len_f == RecvLenF(data_size, h[3], h[2])
        data == MmapRead(m, pos, len_f)
        len_b == data_size - Len(data)
    IN  IF len_b > 0 THEN data \o MmapRead(m, base + BufferSize, len_b) ELSE data

\* recv, lines 270-295: the bytes recv returns
RecvDataAt(m, base, h) ==
    RecvPayloadAt(m, base, h, Unpack32(RecvSizeAt(m, base, h).raw), RecvSizeAt(m, base, h).pos)

\* a variant of RecvOutOffsetAt that does not reduce the cursor modulo the size
RecvOutOffsetUnwrapped(m, base, h) ==
    h[2] + 4 + Unpack32(RecvSizeAt(m, base, h).raw)

\* recv, lines 297-298: the new out_offset
RecvOutOffsetAt(m, base, h) ==
    (h[2] + 4 + Unpack32(RecvSizeAt(m, base, h).raw)) % h[3]

\* recv, lines 297-299: the file after a recv that returns data
RecvWriteAt(m, base, h) == UpdateBuffOffset(m, base + 1 * 4, RecvOutOffsetAt(m, base, h))

\* recv, lines 253 and 270-299, without a step of another process in between
RecvData(m, base) == RecvDataAt(m, base, ReadBuffHeader(m, base))
RecvOutOffset(m, base) == RecvOutOffsetAt(m, base, ReadBuffHeader(m, base))
RecvWrite(m, base) == RecvWriteAt(m, base, ReadBuffHeader(m, base))

\* a variant of TimeoutAfterSleep that forgets to count the sleep
TimeoutNeverSpent(timeout, sleep_time) == timeout

\* send, lines 228-229, and recv, lines 264-265:
\* sleep_time = min(sleep_time, timeout); timeout -= sleep_time
TimeoutAfterSleep(timeout, sleep_time) == timeout - Min(sleep_time, timeout)

----------------------------------------------------------------------------
(* Lifecycle *)

\* a variant of DelHeader that clears both OP bits
DelHeaderBothBits(raw_mmap_header, assign_op) ==
    [raw_mmap_header EXCEPT ![5] = ClearBit(ClearBit(@, OPA), OPB)]

\* __del__, line 307: raw_mmap_header[Sign] &= ~self.assign_op
DelHeader(raw_mmap_header, assign_op) ==
    [raw_mmap_header EXCEPT ![5] = ClearBit(@, assign_op)]

\* __del__, lines 312-313
DelBuffHeader(raw_recv_buff_header) == [raw_recv_buff_header EXCEPT ![1] = 0, ![2] = 0]

\* __del__, lines 304-314, of an initialized endpoint, as one step
DelWrite(m, e) ==
    LET m1 == WriteMmapHeader(m, DelHeader(ReadMmapHeader(m), e.assign_op))
    IN  WriteBuffHeader(m1, e.recv_buff_base_ptr,
                        DelBuffHeader(ReadBuffHeader(m1, e.recv_buff_base_ptr)))

----------------------------------------------------------------------------
(* The calls an endpoint's owner makes, each executed as one step *)

\* op: the call; p: the caller; len: the length of the payload handed to send;
\* n: the value send returned, or the number of polls made by a call that raised
\* TimeoutError; status: how the call ended
Call(op, p, len, n, status) ==
    [op |-> op, p |-> p, len |-> len, n |-> n, status |-> status]

\* the local variables of a call in progress: header is the header it read last,
\* size the length prefix recv has read, pos the file position after reading it
NoLoc ==
    [header |-> <<>>, data |-> <<>>, timeout |-> 0, t0 |-> 0, sleep_time |-> 0, polls |-> 0,
     size |-> 0, pos |-> 0]


Init ==
    /\ mmap = InitMmapFile
    /\ ep = [p \in Procs |-> NoEndpoint]
    /\ last = Call("none", 0, 0, 0, "ok")
    /\ sent = [r \in Rings |-> <<>>]
    /\ rcvd = [r \in Rings |-> <<>>]
    /\ count = [send |-> 0, recv |-> 0, solo |-> FALSE, calls |-> 0]
    /\ pc = [p \in Procs |-> "idle"]
    /\ loc = [p \in Procs |-> NoLoc]

\* MmapIPC(mmap_file, PayloadSize): __init__, lines 81-105
Attach(p) ==
    /\ ~ep[p].alive
    /\ ~ep[p].gone
    /\ pc[p] = "idle"
    /\ LET header == ReadMmapHeader(mmap)
           m1 == IF header[1] = 0 THEN InitMmapStruct(mmap, PayloadSize) ELSE mmap
           got == GetBuffBasePtr(m1)
       IN  IF header[1] \notin {MAGIC_NUMBER, 0}
           THEN /\ mmap' = mmap
                /\ ep' = [ep EXCEPT ![p] = FailedEndpoint]
                /\ last' = Call("attach", p, 0, 0, MagicError(header[1]))
                /\ UNCHANGED <<sent, rcvd>>
           ELSE IF ~got.ok
           THEN /\ mmap' = m1
                /\ ep' = [ep EXCEPT ![p] = FailedEndpoint]
                /\ last' = Call("attach", p, 0, 0, "in_use")
                /\ UNCHANGED <<sent, rcvd>>
           ELSE /\ mmap' = got.m
                /\ ep' = [ep EXCEPT ![p] = AttachedEndpoint(got.ret)]
                /\ last' = Call("attach", p, 0, 0, "ok")
                /\ IF header[1] = 0
                   THEN /\ sent' = [r \in Rings |-> <<>>]
                        /\ rcvd' = [r \in Rings |-> <<>>]
                   ELSE UNCHANGED <<sent, rcvd>>
    /\ UNCHANGED <<count, pc, loc>>

\* del endpoint: __del__, lines 303-318
Del(p) ==
    /\ ep[p].alive
    /\ pc[p] = "idle"
    /\ IF ep[p].is_initialized
       THEN /\ mmap' = DelWrite(mmap, ep[p])
            /\ sent' = [sent EXCEPT ![ep[p].recv_buff_base_ptr] = <<>>]
            /\ rcvd' = [rcvd EXCEPT ![ep[p].recv_buff_base_ptr] = <<>>]
       ELSE UNCHANGED <<mmap, sent, rcvd>>
    /\ ep' = [ep EXCEPT ![p] = GoneEndpoint]
    /\ last' = Call("del", p, 0, 0, "ok")
    /\ UNCHANGED <<count, pc, loc>>

\* endpoint.send(data, blocking=False): lines 210-220 and 236-250
Send(p, data) ==
    /\ Attached(p)
    /\ pc[p] = "idle"
    /\ LET base == ep[p].send_buff_base_ptr
       IN  IF TotalAvailable(mmap, base) < Len(data) + 4
           THEN /\ last' = Call("send", p, Len(data), 0, "wouldblock")
                /\ UNCHANGED <<mmap, sent, count>>
           ELSE /\ count.send < MaxSends
                /\ count' = [count EXCEPT !.send = @ + 1, !.solo = @ \/ Solo]
                /\ mmap' = SendWrite(mmap, base, data)
                /\ sent' = [sent EXCEPT ![base] = Append(@, data)]
                /\ last' = Call("send", p, Len(data), Len(data), "ok")
    /\ UNCHANGED <<ep, rcvd, pc, loc>>

\* endpoint.recv(blocking=False): lines 252-256 and 270-301
Recv(p) ==
    /\ Attached(p)
    /\ pc[p] = "idle"
    /\ LET base == ep[p].recv_buff_base_ptr
           h == ReadBuffHeader(mmap, base)
       IN  IF RecvEmpty(h[1], h[2])
           THEN /\ last' = Call("recv", p, 0, 0, "wouldblock")
                /\ UNCHANGED <<mmap, rcvd, count>>
           ELSE /\ count.recv < MaxSends
                /\ count' = [count EXCEPT !.recv = @ + 1, !.solo = @ \/ Solo]
                /\ mmap' = RecvWrite(mmap, base)
                /\ rcvd' = [rcvd EXCEPT ![base] = Append(@, RecvData(mmap, base))]
                /\ last' = Call("recv", p, 0, 0, "ok")
    /\ UNCHANGED <<ep, sent, pc, loc>>

Next ==
    \E p \in Procs :
        \/ Attach(p)
        \/ Del(p)
        \/ \E data \in Messages : Send(p, data)
        \/ Recv(p)

Spec == Init /\ [][Next]_vars

----------------------------------------------------------------------------
(* The constructor and the destructor executed one file access at a time,    *)
(* with the steps of several processes interleaved                           *)

\* __init__, line 90: header = self.__read_mmap_header(), and lines 91-97
AttachRead(p) ==
    /\ ~ep[p].alive
    /\ ~ep[p].gone
    /\ pc[p] = "idle"
    /\ LET header == ReadMmapHeader(mmap)
       IN  IF header[1] = 0
           THEN /\ pc' = [pc EXCEPT ![p] = "init_header"]
                /\ UNCHANGED <<ep, last>>
           ELSE IF header[1] # MAGIC_NUMBER
           THEN /\ ep' = [ep EXCEPT ![p] = FailedEndpoint]
                /\ last' = Call("attach", p, 0, 0, MagicError(header[1]))
                /\ UNCHANGED pc
           ELSE /\ pc' = [pc EXCEPT ![p] = "get_read"]
                /\ UNCHANGED <<ep, last>>
    /\ UNCHANGED <<mmap, sent, rcvd, count, loc>>

\* __init_mmap_struct, lines 126-132
InitHeader(p) ==
    /\ pc[p] = "init_header"
    /\ mmap' = WriteMmapHeader(mmap, <<MAGIC_NUMBER, VERSION, RingA, RingB, 0>>)
    /\ pc' = [pc EXCEPT ![p] = "init_buff_a"]
    /\ UNCHANGED <<ep, last, sent, rcvd, count, loc>>

\* __init_mmap_struct, lines 135-138
InitBuffA(p) ==
    /\ pc[p] = "init_buff_a"
    /\ mmap' = WriteBuffHeader(mmap, RingA, <<0, 0, PayloadSize + 1>>)
    /\ pc' = [pc EXCEPT ![p] = "init_buff_b"]
    /\ UNCHANGED <<ep, last, sent, rcvd, count, loc>>

\* __init_mmap_struct, lines 141-144
InitBuffB(p) ==
    /\ pc[p] = "init_buff_b"
    /\ mmap' = WriteBuffHeader(mmap, RingB, <<0, 0, PayloadSize + 1>>)
    /\ pc' = [pc EXCEPT ![p] = "get_read"]
    /\ UNCHANGED <<ep, last, sent, rcvd, count, loc>>

\* __get_buff_base_ptr, lines 147-148
GetRead(p) ==
    /\ pc[p] = "get_read"
    /\ loc' = [loc EXCEPT ![p] = [NoLoc EXCEPT !.header = ReadMmapHeader(mmap)]]
    /\ pc' = [pc EXCEPT ![p] = "get_write"]
    /\ UNCHANGED <<mmap, ep, last, sent, rcvd, count>>

\* __get_buff_base_ptr, lines 150-170, and __init__, lines 103-105
GetWrite(p) ==
    /\ pc[p] = "get_write"
    /\ LET got == ClaimRole(loc[p].header)
       IN  IF got.ok
           THEN /\ mmap' = MmapWrite(mmap, 0, PackAll(got.header))
                /\ ep' = [ep EXCEPT ![p] = AttachedEndpoint(got.ret)]
                /\ last' = Call("attach", p, 0, 0, "ok")
           ELSE /\ mmap' = mmap
                /\ ep' = [ep EXCEPT ![p] = FailedEndpoint]
                /\ last' = Call("attach", p, 0, 0, "in_use")
    /\ pc' = [pc EXCEPT ![p] = "idle"]
    /\ loc' = [loc EXCEPT ![p] = NoLoc]
    /\ UNCHANGED <<sent, rcvd, count>>

\* __del__, line 306 (line 304 for an endpoint whose constructor raised)
DelReadHeader(p) ==
    /\ ep[p].alive
    /\ pc[p] = "idle"
    /\ IF ep[p].is_initialized
       THEN /\ loc' = [loc EXCEPT ![p] = [NoLoc EXCEPT !.header = ReadMmapHeader(mmap)]]
            /\ pc' = [pc EXCEPT ![p] = "del_write_header"]
            /\ UNCHANGED <<ep, last>>
       ELSE /\ ep' = [ep EXCEPT ![p] = GoneEndpoint]
            /\ last' = Call("del", p, 0, 0, "ok")
            /\ UNCHANGED <<pc, loc>>
    /\ UNCHANGED <<mmap, sent, rcvd, count>>

\* __del__, lines 307-308
DelWriteHeader(p) ==
    /\ pc[p] = "del_write_header"
    /\ mmap' = WriteMmapHeader(mmap, DelHeader(loc[p].header, ep[p].assign_op))
    /\ pc' = [pc EXCEPT ![p] = "del_read_buff"]
    /\ UNCHANGED <<ep, last, sent, rcvd, count, loc>>

\* __del__, line 311
DelReadBuff(p) ==
    /\ pc[p] = "del_read_buff"
    /\ loc' = [loc EXCEPT ![p] =
                  [NoLoc EXCEPT !.header = ReadBuffHeader(mmap, ep[p].recv_buff_base_ptr)]]
    /\ pc' = [pc EXCEPT ![p] = "del_write_buff"]
    /\ UNCHANGED <<mmap, ep, last, sent, rcvd, count>>

\* __del__, lines 312-318
DelWriteBuff(p) ==
    /\ pc[p] = "del_write_buff"
    /\ mmap' = WriteBuffHeader(mmap, ep[p].recv_buff_base_ptr, DelBuffHeader(loc[p].header))
    /\ ep' = [ep EXCEPT ![p] = GoneEndpoint]
    /\ last' = Call("del", p, 0, 0, "ok")
    /\ pc' = [pc EXCEPT ![p] = "idle"]
    /\ loc' = [loc EXCEPT ![p] = NoLoc]
    /\ UNCHANGED <<sent, rcvd, count>>

NextRace ==
    \E p \in Procs :
        \/ AttachRead(p)
        \/ InitHeader(p)
        \/ InitBuffA(p)
        \/ InitBuffB(p)
        \/ GetRead(p)
        \/ GetWrite(p)
        \/ DelReadHeader(p)
        \/ DelWriteHeader(p)
        \/ DelReadBuff(p)
        \/ DelWriteBuff(p)

SpecRace == Init /\ [][NextRace]_vars

----------------------------------------------------------------------------
(* send and recv called with blocking=True and a timeout, executed one poll  *)
(* at a time, with the steps of the two endpoints interleaved                *)

Timeouts == 0 .. MaxTimeout

\* the two processes of the pair
Pair == { p \in Procs : p <= 2 }

\* the payloads handed to a blocking send: b"A" * n
BlockingMessages == { [i \in 1 .. n |-> 65] : n \in 0 .. MaxLen }

\* send(data, blocking=True, timeout), lines 211-217
CallSend(p, data, timeout) ==
    /\ Attached(p)
    /\ pc[p] = "idle"
    /\ count.calls < MaxCalls
    /\ count' = [count EXCEPT !.calls = @ + 1]
    /\ loc' = [loc EXCEPT ![p] =
                  [header |-> ReadBuffHeader(mmap, ep[p].send_buff_base_ptr), data |-> data,
                   timeout |-> timeout, t0 |-> timeout, sleep_time |-> SleepQuantum,
                   polls |-> 0, size |-> 0, pos |-> 0]]
    /\ pc' = [pc EXCEPT ![p] = "send_loop"]
    /\ UNCHANGED <<mmap, ep, last, sent, rcvd>>

\* send, lines 223-234: one turn of the loop that finds too little space; with
\* the timeout spent it raises TimeoutError, otherwise it sleeps and reads the
\* ring header again
SendPoll(p) ==
    /\ pc[p] = "send_loop"
    /\ TotalOf(loc[p].header) < Len(loc[p].data) + 4
    /\ loc[p].polls <= MaxTimeout
    /\ IF loc[p].timeout <= 0
       THEN /\ last' = Call("send", p, Len(loc[p].data), loc[p].polls, "timeout")
            /\ pc' = [pc EXCEPT ![p] = "idle"]
            /\ loc' = [loc EXCEPT ![p] = NoLoc]
       ELSE /\ loc' = [loc EXCEPT ![p] =
                          [@ EXCEPT !.sleep_time = Min(@, loc[p].timeout),
                                    !.timeout = TimeoutAfterSleep(@, loc[p].sleep_time),
                                    !.polls = @ + 1,
                                    !.header = ReadBuffHeader(mmap, ep[p].send_buff_base_ptr)]]
            /\ UNCHANGED <<last, pc>>
    /\ UNCHANGED <<mmap, ep, sent, rcvd, count>>

\* send, lines 223 and 236-250: the loop ends and the frame is written
SendFinish(p) ==
    /\ pc[p] = "send_loop"
    /\ TotalOf(loc[p].header) >= Len(loc[p].data) + 4
    /\ mmap' = SendWriteAt(mmap, ep[p].send_buff_base_ptr, loc[p].header, loc[p].data)
    /\ sent' = [sent EXCEPT ![ep[p].send_buff_base_ptr] = Append(@, loc[p].data)]
    /\ count' = [count EXCEPT !.send = @ + 1, !.solo = @ \/ Solo]
    /\ last' = Call("send", p, Len(loc[p].data), Len(loc[p].data), "ok")
    /\ pc' = [pc EXCEPT ![p] = "idle"]
    /\ loc' = [loc EXCEPT ![p] = NoLoc]
    /\ UNCHANGED <<ep, rcvd>>

\* recv(blocking=True, timeout), line 253
CallRecv(p, timeout) ==
    /\ Attached(p)
    /\ pc[p] = "idle"
    /\ count.calls < MaxCalls
    /\ count' = [count EXCEPT !.calls = @ + 1]
    /\ loc' = [loc EXCEPT ![p] =
                  [header |-> ReadBuffHeader(mmap, ep[p].recv_buff_base_ptr), data |-> <<>>,
                   timeout |-> timeout, t0 |-> timeout, sleep_time |-> SleepQuantum,
                   polls |-> 0, size |-> 0, pos |-> 0]]
    /\ pc' = [pc EXCEPT ![p] = "recv_loop"]
    /\ UNCHANGED <<mmap, ep, last, sent, rcvd>>

\* recv, lines 259-268: one turn of the loop that finds the ring empty
RecvPoll(p) ==
    /\ pc[p] = "recv_loop"
    /\ RecvEmpty(loc[p].header[1], loc[p].header[2])
    /\ loc[p].polls <= MaxTimeout
    /\ IF loc[p].timeout <= 0
       THEN /\ last' = Call("recv", p, 0, loc[p].polls, "timeout")
            /\ pc' = [pc EXCEPT ![p] = "idle"]
            /\ loc' = [loc EXCEPT ![p] = NoLoc]
       ELSE /\ loc' = [loc EXCEPT ![p] =
                          [@ EXCEPT !.sleep_time = Min(@, loc[p].timeout),
                                    !.timeout = TimeoutAfterSleep(@, loc[p].sleep_time),
                                    !.polls = @ + 1,
                                    !.header = ReadBuffHeader(mmap, ep[p].recv_buff_base_ptr)]]
            /\ UNCHANGED <<last, pc>>
    /\ UNCHANGED <<mmap, ep, sent, rcvd, count>>

\* recv, lines 259 and 270-301: the loop ends and the frame is read
RecvFinish(p) ==
    /\ pc[p] = "recv_loop"
    /\ ~RecvEmpty(loc[p].header[1], loc[p].header[2])
    /\ mmap' = RecvWriteAt(mmap, ep[p].recv_buff_base_ptr, loc[p].header)
    /\ rcvd' = [rcvd EXCEPT ![ep[p].recv_buff_base_ptr] =
                   Append(@, RecvDataAt(mmap, ep[p].recv_buff_base_ptr, loc[p].header))]
    /\ count' = [count EXCEPT !.recv = @ + 1, !.solo = @ \/ Solo]
    /\ last' = Call("recv", p, 0, 0, "ok")
    /\ pc' = [pc EXCEPT ![p] = "idle"]
    /\ loc' = [loc EXCEPT ![p] = NoLoc]
    /\ UNCHANGED <<ep, sent>>

NextTimeout ==
    \E p \in Pair :
        \/ Attach(p)
        \/ \E data \in BlockingMessages, timeout \in Timeouts : CallSend(p, data, timeout)
        \/ SendPoll(p)
        \/ SendFinish(p)
        \/ \E timeout \in Timeouts : CallRecv(p, timeout)
        \/ RecvPoll(p)
        \/ RecvFinish(p)

\* a process inside a call keeps running: time.sleep returns and the loop goes on
FairTimeout ==
    \A p \in Pair :
        /\ WF_vars(SendPoll(p))
        /\ WF_vars(SendFinish(p))
        /\ WF_vars(RecvPoll(p))
        /\ WF_vars(RecvFinish(p))

SpecTimeout == Init /\ [][NextTimeout]_vars /\ FairTimeout

----------------------------------------------------------------------------
(* send and recv called with blocking=False, executed one file access at a   *)
(* time, with the steps of the producer and the consumer interleaved         *)

\* send, lines 211-220: read the ring header; return 0 when the frame does not fit
SendRead(p, data) ==
    /\ Attached(p)
    /\ pc[p] = "idle"
    /\ LET h == ReadBuffHeader(mmap, ep[p].send_buff_base_ptr)
       IN  IF TotalOf(h) < Len(data) + 4
           THEN /\ last' = Call("send", p, Len(data), 0, "wouldblock")
                /\ UNCHANGED <<count, pc, loc>>
           ELSE /\ count.send < MaxSends
                /\ count' = [count EXCEPT !.send = @ + 1]
                /\ loc' = [loc EXCEPT ![p] = [NoLoc EXCEPT !.header = h, !.data = data]]
                /\ pc' = [pc EXCEPT ![p] = "send_front"]
                /\ UNCHANGED last
    /\ UNCHANGED <<mmap, ep, sent, rcvd>>

\* send, lines 236-239: write the first segment
SendWriteFront(p) ==
    /\ pc[p] = "send_front"
    /\ mmap' = SendFrontAt(mmap, ep[p].send_buff_base_ptr, loc[p].header, loc[p].data)
    /\ pc' = [pc EXCEPT ![p] = "send_back"]
    /\ UNCHANGED <<ep, last, sent, rcvd, count, loc>>

\* send, lines 241-244: write the wrapped segment
SendWriteBack(p) ==
    /\ pc[p] = "send_back"
    /\ mmap' = SendBackAt(mmap, ep[p].send_buff_base_ptr, loc[p].header, loc[p].data)
    /\ pc' = [pc EXCEPT ![p] = "send_publish"]
    /\ UNCHANGED <<ep, last, sent, rcvd, count, loc>>

\* send, lines 246-250: publish in_offset and return len(data)
SendPublish(p) ==
    /\ pc[p] = "send_publish"
    /\ mmap' = SendPublishAt(mmap, ep[p].send_buff_base_ptr, loc[p].header, loc[p].data)
    /\ sent' = [sent EXCEPT ![ep[p].send_buff_base_ptr] = Append(@, loc[p].data)]
    /\ count' = [count EXCEPT !.solo = @ \/ Solo]
    /\ last' = Call("send", p, Len(loc[p].data), Len(loc[p].data), "ok")
    /\ pc' = [pc EXCEPT ![p] = "idle"]
    /\ loc' = [loc EXCEPT ![p] = NoLoc]
    /\ UNCHANGED <<ep, rcvd>>

\* recv, lines 253-256: read the ring header; return None when the ring is empty
RecvRead(p) ==
    /\ Attached(p)
    /\ pc[p] = "idle"
    /\ LET h == ReadBuffHeader(mmap, ep[p].recv_buff_base_ptr)
       IN  IF RecvEmpty(h[1], h[2])
           THEN /\ last' = Call("recv", p, 0, 0, "wouldblock")
                /\ UNCHANGED <<count, pc, loc>>
           ELSE /\ count.recv < MaxSends
                /\ count' = [count EXCEPT !.recv = @ + 1]
                /\ loc' = [loc EXCEPT ![p] = [NoLoc EXCEPT !.header = h]]
                /\ pc' = [pc EXCEPT ![p] = "recv_size"]
                /\ UNCHANGED last
    /\ UNCHANGED <<mmap, ep, sent, rcvd>>

\* recv, lines 270-282: read the length prefix
RecvReadSize(p) ==
    /\ pc[p] = "recv_size"
    /\ LET sz == RecvSizeAt(mmap, ep[p].recv_buff_base_ptr, loc[p].header)
       IN  loc' = [loc EXCEPT ![p] = [@ EXCEPT !.size = Unpack32(sz.raw), !.pos = sz.pos]]
    /\ pc' = [pc EXCEPT ![p] = "recv_data"]
    /\ UNCHANGED <<mmap, ep, last, sent, rcvd, count>>

\* recv, lines 284-295: read the payload
RecvReadData(p) ==
    /\ pc[p] = "recv_data"
    /\ loc' = [loc EXCEPT ![p] =
                  [@ EXCEPT !.data = RecvPayloadAt(mmap, ep[p].recv_buff_base_ptr,
                                                   loc[p].header, loc[p].size, loc[p].pos)]]
    /\ pc' = [pc EXCEPT ![p] = "recv_publish"]
    /\ UNCHANGED <<mmap, ep, last, sent, rcvd, count>>

\* recv, lines 297-301: publish out_offset and return the payload
RecvPublish(p) ==
    /\ pc[p] = "recv_publish"
    /\ mmap' = UpdateBuffOffset(mmap, ep[p].recv_buff_base_ptr + 1 * 4,
                                (loc[p].header[2] + 4 + loc[p].size) % loc[p].header[3])
    /\ rcvd' = [rcvd EXCEPT ![ep[p].recv_buff_base_ptr] = Append(@, loc[p].data)]
    /\ count' = [count EXCEPT !.solo = @ \/ Solo]
    /\ last' = Call("recv", p, 0, 0, "ok")
    /\ pc' = [pc EXCEPT ![p] = "idle"]
    /\ loc' = [loc EXCEPT ![p] = NoLoc]
    /\ UNCHANGED <<ep, sent>>

NextSteps ==
    \E p \in Pair :
        \/ Attach(p)
        \/ \E data \in Messages : SendRead(p, data)
        \/ SendWriteFront(p)
        \/ SendWriteBack(p)
        \/ SendPublish(p)
        \/ RecvRead(p)
        \/ RecvReadSize(p)
        \/ RecvReadData(p)
        \/ RecvPublish(p)

SpecSteps == Init /\ [][NextSteps]_vars

----------------------------------------------------------------------------
(* A pair of endpoints whose rings have carried traffic before: the cursors   *)
(* of each ring stand where a number of empty messages, each sent and then    *)
(* received, have left them                                                   *)

\* the file after k rounds of send(b"") and recv() on a ring
RECURSIVE Rounds(_, _, _)
Rounds(m, base, k) ==
    IF k = 0 THEN m ELSE RecvWrite(SendWrite(Rounds(m, base, k - 1), base, <<>>), base)

\* the file after the two endpoints of the pair attached to a new file
PairAttached == GetBuffBasePtr(GetBuffBasePtr(InitMmapStruct(InitMmapFile, PayloadSize)).m).m

\* the payloads handed to send: b"", b"\x00" * n, b"A" * n
RingMessages == { [i \in 1 .. n |-> b] : n \in 0 .. MaxLen, b \in {0, 65} }

InitRing ==
    /\ \E ka, kb \in 0 .. MaxRounds :
           /\ mmap = Rounds(Rounds(PairAttached, RingA, ka), RingB, kb)
           /\ sent = (RingA :> [i \in 1 .. ka |-> <<>>]) @@ (RingB :> [i \in 1 .. kb |-> <<>>])
           /\ rcvd = sent
    /\ ep = [p \in Procs |->
                IF p = 1 THEN AttachedEndpoint(<<OPA, RingA, RingB>>)
                ELSE IF p = 2 THEN AttachedEndpoint(<<OPB, RingB, RingA>>)
                ELSE NoEndpoint]
    /\ last = Call("attach", 2, 0, 0, "ok")
    /\ count = [send |-> 0, recv |-> 0, solo |-> FALSE, calls |-> 0]
    /\ pc = [p \in Procs |-> "idle"]
    /\ loc = [p \in Procs |-> NoLoc]

NextRing ==
    \E p \in Pair :
        \/ \E data \in RingMessages : Send(p, data)
        \/ Recv(p)

SpecRing == InitRing /\ [][NextRing]_vars

----------------------------------------------------------------------------
(* One endpoint looping over send(data, blocking=True, timeout=None) and its *)
(* peer looping over recv(blocking=True, timeout=None) on the same ring, on  *)
(* a pair whose rings have carried traffic before                            *)

\* the payloads the sender loops over: every frame fits an empty ring
LoopMessages == { data \in Messages : Len(data) + 4 <= PayloadSize }

\* send(data, blocking=True, timeout=None), lines 211-217, by the endpoint with role A
LoopSend(p, data) ==
    /\ Attached(p)
    /\ ep[p].assign_op = OPA
    /\ pc[p] = "idle"
    /\ count.send < MaxSends
    /\ loc' = [loc EXCEPT ![p] =
                  [NoLoc EXCEPT !.header = ReadBuffHeader(mmap, ep[p].send_buff_base_ptr),
                                !.data = data, !.sleep_time = SleepQuantum]]
    /\ pc' = [pc EXCEPT ![p] = "send_loop"]
    /\ UNCHANGED <<mmap, ep, last, sent, rcvd, count>>

\* send, lines 223-234 with timeout None: sleep, then read the ring header again
SendWait(p) ==
    /\ pc[p] = "send_loop"
    /\ TotalOf(loc[p].header) < Len(loc[p].data) + 4
    /\ loc' = [loc EXCEPT ![p] =
                  [@ EXCEPT !.header = ReadBuffHeader(mmap, ep[p].send_buff_base_ptr)]]
    /\ UNCHANGED <<mmap, ep, last, sent, rcvd, count, pc>>

\* recv(blocking=True, timeout=None), line 253, by the endpoint with role B
LoopRecv(p) ==
    /\ Attached(p)
    /\ ep[p].assign_op = OPB
    /\ pc[p] = "idle"
    /\ count.recv < MaxSends
    /\ loc' = [loc EXCEPT ![p] =
                  [NoLoc EXCEPT !.header = ReadBuffHeader(mmap, ep[p].recv_buff_base_ptr),
                                !.sleep_time = SleepQuantum]]
    /\ pc' = [pc EXCEPT ![p] = "recv_loop"]
    /\ UNCHANGED <<mmap, ep, last, sent, rcvd, count>>

\* recv, lines 259-268 with timeout None: sleep, then read the ring header again
RecvWait(p) ==
    /\ pc[p] = "recv_loop"
    /\ RecvEmpty(loc[p].header[1], loc[p].header[2])
    /\ loc' = [loc EXCEPT ![p] =
                  [@ EXCEPT !.header = ReadBuffHeader(mmap, ep[p].recv_buff_base_ptr)]]
    /\ UNCHANGED <<mmap, ep, last, sent, rcvd, count, pc>>

NextLoop ==
    \E p \in Pair :
        \/ \E data \in LoopMessages : LoopSend(p, data)
        \/ SendWait(p)
        \/ SendFinish(p)
        \/ LoopRecv(p)
        \/ RecvWait(p)
        \/ RecvFinish(p)

\* both processes keep running their loops
FairLoop ==
    \A p \in Pair :
        /\ WF_vars(\E data \in LoopMessages : LoopSend(p, data))
        /\ WF_vars(SendWait(p))
        /\ WF_vars(SendFinish(p))
        /\ WF_vars(LoopRecv(p))
        /\ WF_vars(RecvWait(p))
        /\ WF_vars(RecvFinish(p))

SpecLoop == InitRing /\ [][NextLoop]_vars /\ FairLoop

----------------------------------------------------------------------------
(* A file whose Magic is overwritten from outside while endpoints use it     *)

\* the values written over Magic: 0x01, 0x10 and 0x1EADBEEF
BadMagics == {1, 16, 514703087}

\* open(mmap_file, 'r+b'); f.seek(0); f.write(struct.pack('<I', magic))
Corrupt(magic) ==
    /\ Magic(mmap) = MAGIC_NUMBER
    /\ mmap' = MmapWrite(mmap, 0, Pack32(magic))
    /\ last' = Call("corrupt", 0, 0, 0, "ok")
    /\ UNCHANGED <<ep, sent, rcvd, count, pc, loc>>

NextCorrupt ==
    \/ \E p \in Procs :
           \/ Attach(p)
           \/ Del(p)
           \/ \E data \in BlockingMessages : Send(p, data)
    \/ \E magic \in BadMagics : Corrupt(magic)

SpecCorrupt == Init /\ [][NextCorrupt]_vars

----------------------------------------------------------------------------
(* Vocabulary of the properties *)

IsPrefix(a, b) == Len(a) <= Len(b) /\ \A i \in 1 .. Len(a) : a[i] = b[i]

AttachedProcs == { p \in Procs : Attached(p) }
NobodyGone == \A p \in Procs : ~ep[p].gone
Sender(r) == { p \in AttachedProcs : ep[p].send_buff_base_ptr = r }
Receiver(r) == { p \in AttachedProcs : ep[p].recv_buff_base_ptr = r }

\* the free space of a ring as the design states it: size - 1 - ((in - out) mod size)
FreeSpace(m, base) ==
    Size(m, base) - 1 - ((InOffset(m, base) - OutOffset(m, base)) % Size(m, base))

\* the frame of a payload: 4-byte little-endian length, then the payload
Frame(data) == Pack32(Len(data)) \o data

\* the ring holds the frame of data at position pos, taken mod Size
FrameAt(m, base, pos, data) ==
    \A k \in 0 .. Len(data) + 3 :
        m[base + BufferSize + ((pos + k) % Size(m, base))] = Frame(data)[k + 1]

\* the file as the consumer finds it once every frame before position pos is drained
DrainedTo(m, base, pos) == UpdateBuffOffset(m, base + 1 * 4, pos)

----------------------------------------------------------------------------
(* C1: FIFO per direction.  While both endpoints of a direction are attached  *)
(* and nobody has detached, the payloads recv returned on a ring are a prefix *)
(* of the payloads whose send on that ring returned success.                  *)
C1_FifoPerDirection ==
    \A r \in Rings :
        (NobodyGone /\ ~count.solo /\ Sender(r) # {} /\ Receiver(r) # {})
            => IsPrefix(rcvd[r], sent[r])

(* C2 as stated: on a fresh pair with both rings empty, a non-blocking send   *)
(* of any payload of length <= PayloadSize returns its length, and the peer's *)
(* next recv returns that payload.                                            *)
FreshPair == NobodyGone /\ ~count.solo /\ Cardinality(AttachedProcs) = 2

\* the last call was a send issued with both rings empty
SendOnEmptyRings ==
    /\ FreshPair
    /\ last.op = "send"
    /\ count.recv = 0
    /\ \/ count.send = 0
       \/ count.send = 1 /\ last.status = "ok"

\* the last call was the peer's recv on the ring that holds the first frame sent
RecvOfFirstFrame(r) ==
    /\ FreshPair
    /\ last.op = "recv"
    /\ count.send = 1
    /\ Len(sent[r]) = 1
    /\ last.p \in Receiver(r)
    /\ \/ count.recv = 0
       \/ count.recv = 1 /\ last.status = "ok"

RoundTripUpTo(maxlen) ==
    /\ (SendOnEmptyRings /\ last.len <= maxlen) => (last.status = "ok" /\ last.n = last.len)
    /\ \A r \in Rings :
           (RecvOfFirstFrame(r) /\ Len(sent[r][1]) <= maxlen)
               => (last.status = "ok" /\ rcvd[r] = sent[r])

C2_RoundTripAsStated == RoundTripUpTo(PayloadSize)

(* C2, amended: the round trip holds for every payload of length at most      *)
(* PayloadSize - 4, the frame's 4-byte length prefix counting against the     *)
(* ring's PayloadSize usable bytes.                                           *)
C2_RoundTrip == RoundTripUpTo(PayloadSize - 4)

C2_Witness ==
    \E r \in Rings :
        /\ RecvOfFirstFrame(r)
        /\ last.status = "ok"
        /\ Len(sent[r][1]) = PayloadSize - 4

(* C3: after a send that wrote a frame the ring is not seen as empty:         *)
(* InOffset # OutOffset and at most Size - 1 bytes are occupied.              *)
C3_SendVisible ==
    (last.op = "send" /\ last.status = "ok")
        => InOffset(mmap, ep[last.p].send_buff_base_ptr)
               # OutOffset(mmap, ep[last.p].send_buff_base_ptr)

(* C4 as stated: on a new file the first attach claims role A with send ring *)
(* = ring A and recv ring = ring B, the second claims role B with send ring   *)
(* = ring B and recv ring = ring A, and a third attach fails with "in use".   *)
SignBits(m) == { b \in {OPA, OPB} : HasBit(Sign(m), b) }

\* the step is the k-th constructor call on a new file, by process p
IsNthAttach(k, p) ==
    /\ last'.op = "attach"
    /\ last'.p = p
    /\ NobodyGone
    /\ Cardinality({ q \in Procs : ep[q].alive }) = k - 1

RoleAssignment(sendOfA, recvOfA) ==
    \A p \in Procs :
        /\ IsNthAttach(1, p) =>
               /\ last'.status = "ok"
               /\ SignBits(mmap') = {OPA}
               /\ ep'[p].is_initialized
               /\ ep'[p].assign_op = OPA
               /\ ep'[p].send_buff_base_ptr = sendOfA
               /\ ep'[p].recv_buff_base_ptr = recvOfA
        /\ IsNthAttach(2, p) =>
               /\ last'.status = "ok"
               /\ Sign(mmap') = OPA + OPB
               /\ ep'[p].is_initialized
               /\ ep'[p].assign_op = OPB
               /\ ep'[p].send_buff_base_ptr = recvOfA
               /\ ep'[p].recv_buff_base_ptr = sendOfA
        /\ IsNthAttach(3, p) =>
               /\ last'.status = "in_use"
               /\ ~ep'[p].is_initialized
               /\ mmap' = mmap

C4_RolesAsStated == [][RoleAssignment(RingA, RingB)]_vars

(* C4, amended: the first attach claims role A, whose recv ring is ring A and *)
(* whose send ring is ring B; the second claims role B, whose recv ring is    *)
(* ring B and whose send ring is ring A; Sign is OPA, then OPA|OPB; the third *)
(* attach fails with "in use" and changes nothing in the file.                *)
C4_Roles == [][RoleAssignment(RingB, RingA)]_vars

C4_Witness ==
    /\ last.op = "attach"
    /\ last.status = "in_use"
    /\ NobodyGone
    /\ Sign(mmap) = OPA + OPB
    /\ \E p, q \in AttachedProcs : ep[p].assign_op = OPA /\ ep[q].assign_op = OPB

(* C6: a non-blocking send issued with less free space than len(data) + 4     *)
(* returns 0 and leaves the file unchanged; with at least len(data) + 4 free  *)
(* bytes it writes the frame at InOffset, advances InOffset and returns       *)
(* len(data).                                                                 *)
SendOutcome(p) ==
    LET base == ep[p].send_buff_base_ptr
    IN  IF FreeSpace(mmap, base) < last'.len + 4
        THEN /\ last'.status = "wouldblock"
             /\ last'.n = 0
             /\ mmap' = mmap
        ELSE count.send < MaxSends =>
             /\ last'.status = "ok"
             /\ last'.n = last'.len
             /\ Len(sent'[base]) = Len(sent[base]) + 1
             /\ FrameAt(mmap', base, InOffset(mmap, base), sent'[base][Len(sent'[base])])
             /\ InOffset(mmap', base) = (InOffset(mmap, base) + last'.len + 4) % Size(mmap, base)
             /\ OutOffset(mmap', base) = OutOffset(mmap, base)

C6_SendWouldBlock ==
    [][\A p \in Procs : (last'.op = "send" /\ last'.p = p) => SendOutcome(p)]_vars

(* C7: a non-blocking recv returns null exactly when its receive ring is      *)
(* empty (InOffset = OutOffset) and then changes nothing in the file; when    *)
(* the ring is not empty it returns a message.                                *)
RecvOutcome(p) ==
    LET base == ep[p].recv_buff_base_ptr
        empty == InOffset(mmap, base) = OutOffset(mmap, base)
    IN  /\ empty <=> last'.status = "wouldblock"
        /\ empty => (mmap' = mmap /\ rcvd' = rcvd)
        /\ ~empty => /\ last'.status = "ok"
                     /\ Len(rcvd'[base]) = Len(rcvd[base]) + 1

C7_RecvWouldBlock ==
    [][\A p \in Procs : (last'.op = "recv" /\ last'.p = p) => RecvOutcome(p)]_vars

\* a recv found the ring empty after it had been filled and drained
C7_Witness ==
    /\ last.op = "recv"
    /\ last.status = "wouldblock"
    /\ count.recv > 0
    /\ InOffset(mmap, ep[last.p].recv_buff_base_ptr) # 0
    /\ InOffset(mmap, ep[last.p].recv_buff_base_ptr)
           = OutOffset(mmap, ep[last.p].recv_buff_base_ptr)

(* C9: destroying an attached endpoint with role R clears R's bit in Sign and *)
(* zeroes InOffset and OutOffset of its receive ring; the peer's bit, the     *)
(* cursors and payload of its send ring, Magic, Version, BasePtrA, BasePtrB   *)
(* and both rings' Size stay as they were.                                    *)
DelEffect(p) ==
    LET e == ep[p]
    IN  /\ SignBits(mmap') = SignBits(mmap) \ {e.assign_op}
        /\ InOffset(mmap', e.recv_buff_base_ptr) = 0
        /\ OutOffset(mmap', e.recv_buff_base_ptr) = 0
        /\ InOffset(mmap', e.send_buff_base_ptr) = InOffset(mmap, e.send_buff_base_ptr)
        /\ OutOffset(mmap', e.send_buff_base_ptr) = OutOffset(mmap, e.send_buff_base_ptr)
        /\ RingData(mmap', e.send_buff_base_ptr) = RingData(mmap, e.send_buff_base_ptr)
        /\ \A k \in 1 .. 4 : ReadMmapHeader(mmap')[k] = ReadMmapHeader(mmap)[k]
        /\ \A r \in Rings : Size(mmap', r) = Size(mmap, r)

C9_DetachEffect ==
    [][\A p \in Procs : (last'.op = "del" /\ last'.p = p /\ Attached(p)) => DelEffect(p)]_vars

\* an endpoint was destroyed while its peer stayed attached and both rings held frames
C9_Witness ==
    /\ last.op = "del"
    /\ ep[last.p].gone
    /\ Cardinality(SignBits(mmap)) = 1
    /\ \E r \in Rings : InOffset(mmap, r) # OutOffset(mmap, r)
    /\ \E r \in Rings : InOffset(mmap, r) = 0 /\ OutOffset(mmap, r) = 0 /\ count.send = 2

(* C10: in every ring state with at least 4 free bytes, send(b"") enqueues a  *)
(* frame of length 0: the recv that finds OutOffset at that frame returns the *)
(* empty byte string and advances OutOffset by exactly 4 mod Size.            *)
EmptySendOutcome(p) ==
    LET base == ep[p].send_buff_base_ptr
        pos == InOffset(mmap, base)
        atFrame == DrainedTo(mmap', base, pos)
    IN  (FreeSpace(mmap, base) >= 4 /\ count.send < MaxSends) =>
            /\ last'.status = "ok"
            /\ RecvData(atFrame, base) = <<>>
            /\ RecvOutOffset(atFrame, base) = (pos + 4) % Size(mmap, base)

C10_EmptyPayload ==
    [][\A p \in Procs :
          (last'.op = "send" /\ last'.p = p /\ last'.len = 0) => EmptySendOutcome(p)]_vars

(* C5: role exclusivity.  In every state reached by interleaving the read and *)
(* write steps of constructors and destructors of any number of processes, at *)
(* most one attached endpoint holds role A and at most one holds role B.      *)
C5_RoleExclusivity ==
    \A p, q \in AttachedProcs : p # q => ep[p].assign_op # ep[q].assign_op

(* C8: a blocking send (recv) with a timeout T >= 0 that keeps finding too    *)
(* little free space (an empty ring) ends after finitely many polls, at most  *)
(* ceil(T / sleep quantum), by raising TimeoutError; its polls and the raise  *)
(* leave the file unchanged, and it ends otherwise only when the header it    *)
(* read last shows enough space (a ring that is not empty).                   *)
InCall(p) == pc[p] \in {"send_loop", "recv_loop"}

\* the step is one of p's own inside a blocking call
OwnStep(p) == InCall(p) /\ <<pc'[p], loc'[p]>> # <<pc[p], loc[p]>>

PollsBound(t0) == (t0 + SleepQuantum - 1) \div SleepQuantum

C8_Timeout ==
    /\ \A p \in Procs : InCall(p) ~> (pc[p] = "idle")
    /\ [](\A p \in Procs : InCall(p) => loc[p].polls <= PollsBound(loc[p].t0))
    /\ [][\A p \in Procs :
            OwnStep(p) =>
              /\ (InCall(p)' \/ last'.status = "timeout") => mmap' = mmap
              /\ (last'.status = "timeout" /\ ~InCall(p)') =>
                    /\ last'.p = p
                    /\ last'.n = PollsBound(loc[p].t0)
                    /\ loc[p].timeout = 0
              /\ (pc[p] = "send_loop" /\ ~InCall(p)' /\ last'.status # "timeout") =>
                    TotalOf(loc[p].header) >= Len(loc[p].data) + 4
              /\ (pc[p] = "recv_loop" /\ ~InCall(p)' /\ last'.status # "timeout") =>
                    loc[p].header[1] # loc[p].header[2]]_vars

\* a blocking call raised TimeoutError after polling twice, the second sleep
\* shortened to the time left
C8_Witness ==
    /\ last.status = "timeout"
    /\ last.n = 2
    /\ pc[last.p] = "idle"

(* C11: an attach to a file whose Magic is neither 0 nor MAGIC_NUMBER fails   *)
(* with the bad-magic error, an attach to a file with both OPA and OPB set    *)
(* fails with the in-use error, and neither the failed attach nor the later   *)
(* destruction of the failed endpoint object changes a byte of the file.      *)
AttachStep(p) == ~ep[p].alive /\ ep'[p].alive

FailedAttachOutcome(p) ==
    LET header == ReadMmapHeader(mmap)
    IN  /\ header[1] \notin {0, MAGIC_NUMBER} =>
               /\ last'.status = "bad_magic"
               /\ ~ep'[p].is_initialized
               /\ mmap' = mmap
        /\ (header[1] = MAGIC_NUMBER /\ SignBits(mmap) = {OPA, OPB}) =>
               /\ last'.status = "in_use"
               /\ ~ep'[p].is_initialized
               /\ mmap' = mmap

FailedDelOutcome(p) ==
    (ep[p].alive /\ ~ep[p].is_initialized /\ ep'[p].gone) => mmap' = mmap

C11_FailedAttach ==
    [][\A p \in Procs :
          /\ AttachStep(p) => FailedAttachOutcome(p)
          /\ FailedDelOutcome(p)]_vars

(* C12: cursor bounds.  In every state reached by attach, send, recv and      *)
(* detach operations on a file that has been set up, every ring satisfies     *)
(* 0 <= InOffset < Size and 0 <= OutOffset < Size.                            *)
FileSetUp == \E p \in Procs : ep[p].alive \/ ep[p].gone

C12_CursorBounds ==
    FileSetUp =>
        \A r \in Rings :
            /\ 0 <= InOffset(mmap, r) /\ InOffset(mmap, r) < Size(mmap, r)
            /\ 0 <= OutOffset(mmap, r) /\ OutOffset(mmap, r) < Size(mmap, r)

\* both cursors of a ring have advanced, the producer's past the wrap point
C12_Witness ==
    \E r \in Rings :
        /\ count.send = MaxSends
        /\ 0 < InOffset(mmap, r)
        /\ InOffset(mmap, r) < OutOffset(mmap, r)

(* C13: free-space formula.  For the cursors in and out of every ring, the    *)
(* total available space send computes (front + back of the available-size    *)
(* helper) equals size - 1 - ((in - out) mod size).                           *)
C13_FreeSpaceFormula ==
    FileSetUp => \A r \in Rings : TotalAvailable(mmap, r) = FreeSpace(mmap, r)

(* C14 as stated: over its lifetime an endpoint with role A changes in the    *)
(* file only ring A's InOffset and payload bytes, ring B's OutOffset and the  *)
(* OPA bit of Sign; symmetric for role B.                                     *)
InPos(r) == r .. r + 3
OutPos(r) == r + 4 .. r + 7
SizePos(r) == r + 8 .. r + 11
DataPos(r) == r + BufferSize .. r + BufferSize + PayloadSize
SignPos == 16 .. 19

\* the positions the constructor writes when it sets up a new file
SetUpPos == IF Magic(mmap) = 0 THEN (0 .. 15) \cup SizePos(RingA) \cup SizePos(RingB) ELSE {}

\* the step is a call of process p; role: the role its endpoint holds
Ownership(sendOfA, recvOfA, resetAtDel) ==
    \A p \in Procs :
        (last'.p = p /\ last'.op \in {"attach", "send", "recv", "del"}) =>
            LET role == IF Attached(p) THEN ep[p].assign_op ELSE ep'[p].assign_op
                S == IF role = OPA THEN sendOfA ELSE recvOfA
                R == IF role = OPA THEN recvOfA ELSE sendOfA
                allowed == InPos(S) \cup DataPos(S) \cup OutPos(R) \cup SignPos \cup SetUpPos
                               \cup (IF resetAtDel /\ last'.op = "del" THEN InPos(R) ELSE {})
            IN  role \in {OPA, OPB} =>
                    /\ \A i \in DOMAIN mmap : mmap'[i] # mmap[i] => i \in allowed
                    /\ ClearBit(Sign(mmap'), role) = ClearBit(Sign(mmap), role)

C14_OwnershipAsStated == [][Ownership(RingA, RingB, FALSE)]_vars

(* C14, amended: an endpoint with role A changes in the file only ring B's    *)
(* InOffset and payload bytes (send), ring A's OutOffset (recv), the OPA bit  *)
(* of Sign (attach, detach) and, at detach, ring A's InOffset, which it       *)
(* resets to 0 together with ring A's OutOffset; the attach that sets up a    *)
(* new file also writes Magic, Version, both base pointers and both Sizes.    *)
(* Symmetric for role B.                                                      *)
C14_Ownership == [][Ownership(RingB, RingA, TRUE)]_vars

\* the one frame sent, of length 1, was never received, and the detach of the
\* receiver has reset the producer's cursor of its receive ring
C14_Witness ==
    /\ last.op = "del"
    /\ count.send = 1
    /\ count.recv = 0
    /\ Cardinality(SignBits(mmap)) = 1
    /\ \E r \in Rings :
           /\ RingData(mmap, r)[0] = 1
           /\ InOffset(mmap, r) = 0
           /\ \E p \in Procs : ep[p].gone /\ last.p = p

(* C15: no partial frame is observable.  With send and recv executed one file *)
(* access at a time and interleaved, whenever the consumer reads a ring       *)
(* header with InOffset # OutOffset, every byte of the frame at OutOffset,    *)
(* the frame published last at that position, is in the ring with its final   *)
(* value: the 4-byte length and the payload of the message.                   *)
ObservesFrame(p) == pc[p] = "idle" /\ pc'[p] = "recv_size"

\* the position at which the k-th message sent on a ring was framed
RECURSIVE StartOf(_, _, _)
StartOf(log, k, size) ==
    IF k = 1 THEN 0 ELSE (StartOf(log, k - 1, size) + Len(log[k - 1]) + 4) % size

\* the messages of a ring framed at position pos, by their index in the log
FramedAt(r, pos) == { k \in 1 .. Len(sent[r]) : StartOf(sent[r], k, Size(mmap, r)) = pos }

FrameComplete(p) ==
    LET r == ep[p].recv_buff_base_ptr
        out == loc'[p].header[2]
        ks == FramedAt(r, out)
    IN  /\ ks # {}
        /\ FrameAt(mmap, r, out, sent[r][CHOOSE k \in ks : \A j \in ks : j <= k])

C15_NoPartialFrame ==
    [][\A p \in Procs : ObservesFrame(p) => FrameComplete(p)]_vars

(* C16: send frame layout with wrap.  For every ring state and payload with   *)
(* at least len(data) + 4 free bytes, after send returns the ring bytes at    *)
(* positions (in + k) mod Size, k = 0 .. len(data) + 3, are the 4-byte        *)
(* little-endian length followed by the payload, wherever the wrap point      *)
(* falls, and InOffset is (in + len(data) + 4) mod Size.                      *)
SendLayout(p) ==
    LET base == ep[p].send_buff_base_ptr
        in == InOffset(mmap, base)
    IN  (FreeSpace(mmap, base) >= last'.len + 4 /\ count.send < MaxSends) =>
            /\ last'.status = "ok"
            /\ sent'[base] # sent[base]
            /\ \E data \in Messages :
                   /\ sent'[base] = Append(sent[base], data)
                   /\ \A k \in 0 .. Len(data) + 3 :
                          RingData(mmap', base)[(in + k) % Size(mmap, base)] = Frame(data)[k + 1]
            /\ InOffset(mmap', base) = (in + last'.len + 4) % Size(mmap, base)

C16_SendLayout ==
    [][\A p \in Procs : (last'.op = "send" /\ last'.p = p) => SendLayout(p)]_vars

(* C17: recv reassembly with wrap.  For either role and every OutOffset o,    *)
(* when the receive ring holds the correctly laid-out frame of a payload d at *)
(* o (positions taken mod Size), recv returns exactly d, the bytes at         *)
(* positions (o + 4 + k) mod Size of its own receive ring, and sets OutOffset *)
(* to (o + 4 + len(d)) mod Size; the length prefix may straddle the wrap      *)
(* point, end exactly at it, or lie before it.                                *)
RecvReassembly(p) ==
    LET r == ep[p].recv_buff_base_ptr
        o == OutOffset(mmap, r)
        size == Size(mmap, r)
    IN  \A d \in RingMessages :
            ( /\ count.recv < MaxSends
              /\ Len(d) + 4 < size
              /\ InOffset(mmap, r) = (o + 4 + Len(d)) % size
              /\ FrameAt(mmap, r, o, d) ) =>
                /\ last'.status = "ok"
                /\ rcvd'[r] = Append(rcvd[r], d)
                /\ OutOffset(mmap', r) = (o + 4 + Len(d)) % size

C17_RecvReassembly ==
    [][\A p \in Procs : (last'.op = "recv" /\ last'.p = p) => RecvReassembly(p)]_vars

(* C18: teardown returns the file to a reusable state.  Whenever the file has *)
(* been set up and every endpoint that attached has detached, Sign has        *)
(* neither OPA nor OPB set and both rings are empty (InOffset = OutOffset), so *)
(* that no endpoint attaching afterwards receives a message sent before.      *)
AllDetached == Magic(mmap) = MAGIC_NUMBER /\ AttachedProcs = {}

C18_Teardown ==
    AllDetached =>
        /\ SignBits(mmap) = {}
        /\ \A r \in Rings : InOffset(mmap, r) = OutOffset(mmap, r)

(* C19: send never clobbers unread data.  Under any interleaving with the     *)
(* peer's recv, every byte a send changes lies in the payload region of its   *)
(* own send ring, at a position of the free region (from InOffset up to but   *)
(* excluding OutOffset, mod Size; the whole ring when the cursors are equal), *)
(* and belongs to no frame that was sent and has not been received yet.       *)
FreeRegion(r) ==
    { (InOffset(mmap, r) + j) % Size(mmap, r) :
          j \in 0 .. ((OutOffset(mmap, r) - InOffset(mmap, r) - 1) % Size(mmap, r)) }

\* the ring positions of the frames sent on a ring and not yet received
UnreadPos(r) ==
    UNION { { (StartOf(sent[r], k, Size(mmap, r)) + j) % Size(mmap, r) :
                  j \in 0 .. Len(sent[r][k]) + 3 } :
            k \in Len(rcvd[r]) + 1 .. Len(sent[r]) }

SendWrites(p) == pc[p] \in {"send_front", "send_back"} /\ pc'[p] # pc[p]

C19_NoClobber ==
    [][\A p \in Procs :
          SendWrites(p) =>
              \A i \in DOMAIN mmap :
                  mmap'[i] # mmap[i] =>
                      /\ i \in DataPos(ep[p].send_buff_base_ptr)
                      /\ (i - ep[p].send_buff_base_ptr - BufferSize)
                             \in FreeRegion(ep[p].send_buff_base_ptr)
                      /\ (i - ep[p].send_buff_base_ptr - BufferSize)
                             \notin UnreadPos(ep[p].send_buff_base_ptr)]_vars

(* C20: with one process looping over blocking sends without timeout, every   *)
(* frame fitting an empty ring, and its peer looping over blocking recvs      *)
(* without timeout on the same ring, under weak fairness of both every send   *)
(* eventually returns and every message sent is eventually returned by a recv *)
(* with identical content, also when the traffic wraps around the ring: the   *)
(* k-th message a recv returns is the k-th message sent.                      *)
C20_Liveness ==
    /\ \A p \in Procs : (pc[p] = "send_loop") ~> (pc[p] = "idle")
    /\ \A k \in 1 .. MaxRounds + MaxSends :
           (Len(sent[RingB]) >= k)
               ~> (Len(rcvd[RingB]) >= k /\ rcvd[RingB][k] = sent[RingB][k])
    /\ [](\A k \in 1 .. Len(rcvd[RingB]) :
              k <= Len(sent[RingB]) /\ rcvd[RingB][k] = sent[RingB][k])

====
